---- MODULE Spec2Model ----
(***************************************************************************)
(* Clinic queue / token backend (api/models.py, api/views.py,              *)
(* api/tasks.py) as a state machine over the Token, Consultation and       *)
(* PrescriptionItem tables, the wall clock and the django-q task queue.    *)
(*                                                                         *)
(* Representation:                                                         *)
(*   - a date is an integer number of days, today = Today;                 *)
(*   - a time of day is an integer number of minutes since midnight;       *)
(*   - an "HH:MM" string is a record [h, m, pad] (pad: the hour is written *)
(*     with two digits), so that strptime and strftime are not inverse     *)
(*     of one another on every input ("9:00" parses, is never produced);   *)
(*   - a token_number string is a sequence of character codes, so that the *)
(*     ORM's ORDER BY on the CharField is the lexicographic order;         *)
(*   - the id of a token is its index in the sequence tokens, which is     *)
(*     also the order of created_at;                                       *)
(*   - now is the wall clock of today in the clinic's time zone (TIME_ZONE *)
(*     'Asia/Kolkata'); it stays after 05:30, where the UTC date that      *)
(*     timezone.now().date() returns is the local date Today;              *)
(*   - call is the phone call in progress on the IVR: the TwiML of the     *)
(*     last response, which tells where the next request goes.             *)
(***************************************************************************)
EXTENDS Integers, Sequences, FiniteSets, TLC

VARIABLES tokens, consultations, tasks, now, resp, inflight, call

vars == <<tokens, consultations, tasks, now, resp, inflight, call>>

(***************************************************************************)
(* Bounds of the model.                                                    *)
(***************************************************************************)
MaxTokens == 2
MaxWalkIns == 12
MaxConsultations == 1
MaxItems == 2
MaxRequests == 2

(***************************************************************************)
(* Null values of nullable columns.                                        *)
(***************************************************************************)
NoTime == -1
NoStamp == -1
NoDistance == -1
NoNumber == <<>>
NoClinic == 0
NoPhone == 0

Today == 0

(***************************************************************************)
(* The fixed directory rows: clinics, doctors, patients, staff users.      *)
(***************************************************************************)
Clinics == {1, 2}
Doctors == {1, 2, 3}
Patients == {1, 2}

DoctorClinic(d) == IF d = 3 THEN 2 ELSE 1
\* first character of Doctor.name, upper-cased ("A", "A", "B")
DoctorInitial(d) == IF d = 3 THEN 66 ELSE 65
\* Clinic.latitude / Clinic.longitude are configured for clinic 1 only
ClinicHasLocation(c) == c = 1
\* Patient.phone_number: patient 1 has one, patient 2 has none
PatientPhone(p) == IF p = 1 THEN 1 ELSE NoPhone

\* staff users: one user per doctor, one receptionist per clinic
DoctorUsers == {[role |-> "doctor", doctor |-> d, clinic |-> DoctorClinic(d)] : d \in Doctors}
ReceptionistUsers == {[role |-> "receptionist", doctor |-> 0, clinic |-> c] : c \in Clinics}
StaffUsers == DoctorUsers \cup ReceptionistUsers

STATUS_CHOICES == {"waiting", "confirmed", "in_consultancy", "completed", "skipped", "cancelled"}

(***************************************************************************)
(* Strings.                                                                *)
(***************************************************************************)
RECURSIVE IntToStr(_)
\* str(n) for n >= 0: the decimal digits as character codes
IntToStr(n) == IF n < 10 THEN <<48 + n>> ELSE IntToStr(n \div 10) \o <<48 + (n % 10)>>

\* str.isdigit(): non-empty and every character a digit
IsDigit(s) == Len(s) > 0 /\ \A i \in 1..Len(s) : s[i] \in 48..57

RECURSIVE StrToInt(_)
\* int(s) for a string of digits
StrToInt(s) == IF Len(s) = 0 THEN 0
               ELSE 10 * StrToInt(SubSeq(s, 1, Len(s) - 1)) + (s[Len(s)] - 48)

\* a < b in the order of the database on strings (character by character)
StrLess(a, b) ==
    \E k \in 1..(Len(b)) :
        /\ \A j \in 1..(k - 1) : j <= Len(a) /\ a[j] = b[j]
        /\ \/ k = Len(a) + 1
           \/ k <= Len(a) /\ a[k] < b[k]

\* datetime.strptime(s, '%H:%M'): FALSE stands for ValueError
TimeStrValid(s) == s.h \in 0..23 /\ s.m \in 0..59
StrpTime(s) == s.h * 60 + s.m
\* time.strftime('%H:%M')
StrfTime(t) == [h |-> t \div 60, m |-> t % 60, pad |-> TRUE]
\* the absent / empty request field
NoStr == [h |-> -1, m |-> -1, pad |-> FALSE]

\* datetime.strptime(s, '%Y-%m-%d'): FALSE stands for ValueError
DateStrValid(s) == s.fmt = "ymd"
StrpDate(s) == s.day
StrfDate(d) == [fmt |-> "ymd", day |-> d]

(***************************************************************************)
(* Sequence helpers (QuerySet evaluation).                                 *)
(***************************************************************************)
Ids(toks) == 1..Len(toks)

\* .latest('created_at') on a non-empty set of ids
Latest(ids) == CHOOSE i \in ids : \A j \in ids : j <= i

(***************************************************************************)
(* Token table (api/models.py).                                            *)
(***************************************************************************)
\* the rows a status marks as holding a place in the queue
IsActive(t) == t.status \notin {"completed", "cancelled", "skipped"}

\* variant: the table without unique_together (doctor, date, appointment_time)
UniqueViolationNumberOnly(toks, t) ==
    \E i \in Ids(toks) :
        /\ t.token_number # NoNumber
        /\ t.clinic # NoClinic
        /\ toks[i].token_number = t.token_number
        /\ toks[i].clinic = t.clinic
        /\ toks[i].date = t.date

\* Token.Meta.unique_together as the database enforces it on INSERT: a NULL
\* column never collides
UniqueViolation(toks, t) ==
    \E i \in Ids(toks) :
        \/ /\ t.token_number # NoNumber
           /\ t.clinic # NoClinic
           /\ toks[i].token_number = t.token_number
           /\ toks[i].clinic = t.clinic
           /\ toks[i].date = t.date
        \/ /\ t.appointment_time # NoTime
           /\ toks[i].doctor = t.doctor
           /\ toks[i].date = t.date
           /\ toks[i].appointment_time = t.appointment_time

\* Token.objects.filter(clinic, date, appointment_time__isnull=True)
\*      .order_by('-token_number').first(): 0 when there is no such row
LastWalkIn(toks, clinic, date) ==
    LET S == {i \in Ids(toks) : /\ toks[i].clinic = clinic
                                /\ toks[i].date = date
                                /\ toks[i].appointment_time = NoTime}
    IN IF S = {} THEN 0
       ELSE CHOOSE i \in S : \A j \in S :
                j = i \/ StrLess(toks[j].token_number, toks[i].token_number)
                      \/ (toks[j].token_number = toks[i].token_number /\ j > i)

\* the token number Token.save gives a new walk-in token
NextTokenNumber(toks, clinic, date) ==
    LET last == LastWalkIn(toks, clinic, date)
        last_token_num == IF last # 0 /\ IsDigit(toks[last].token_number)
                          THEN StrToInt(toks[last].token_number) ELSE 0
    IN IntToStr(last_token_num + 1)

\* variant: Token.save that gives a walk-in token no number
TokenSaveNoNumber(toks, t, isNew, clock) ==
    IF t.status = "completed" /\ t.completed_at = NoStamp
    THEN [t EXCEPT !.completed_at = clock] ELSE t

\* Token.save up to the INSERT / UPDATE: the fields it fills in
\* (isNew: the instance has no pk yet)
TokenSave(toks, t, isNew, clock) ==
    LET t1 == IF t.clinic = NoClinic
              THEN [t EXCEPT !.clinic = DoctorClinic(t.doctor)] ELSE t
        t2 == IF isNew /\ t1.appointment_time = NoTime /\ t1.token_number = NoNumber
              THEN [t1 EXCEPT !.token_number = NextTokenNumber(toks, t1.clinic, t1.date)]
              ELSE t1
    IN IF t2.status = "completed" /\ t2.completed_at = NoStamp
       THEN [t2 EXCEPT !.completed_at = clock] ELSE t2

\* the instance Token.objects.create(...) builds from its keyword arguments
NewToken(patient, doctor, date, appointment_time, token_number, status) ==
    [patient |-> patient, doctor |-> doctor, clinic |-> DoctorClinic(doctor),
     date |-> date, appointment_time |-> appointment_time,
     token_number |-> token_number, status |-> status,
     completed_at |-> NoStamp, distance_km |-> NoDistance]

(***************************************************************************)
(* Slots (api/views.py).                                                   *)
(***************************************************************************)
START_HOUR == 9
END_HOUR == 17
SLOT_MINUTES == 15

RECURSIVE SlotsFrom(_)
\* the while loop of _get_available_slots_for_doctor
SlotsFrom(current_time) ==
    IF current_time < END_HOUR * 60
    THEN <<current_time>> \o SlotsFrom(current_time + SLOT_MINUTES)
    ELSE <<>>

AllSlots == SlotsFrom(START_HOUR * 60)

\* variant: booked slots without .exclude(status__in=['cancelled', 'skipped'])
BookedSlotsAnyStatus(toks, doctor_id, date) ==
    {toks[i].appointment_time : i \in {j \in Ids(toks) :
        /\ toks[j].doctor = doctor_id
        /\ toks[j].date = date
        /\ toks[j].appointment_time # NoTime}}

\* the appointment times of the doctor's tokens of the date that hold a slot
BookedSlots(toks, doctor_id, date) ==
    {toks[i].appointment_time : i \in {j \in Ids(toks) :
        /\ toks[j].doctor = doctor_id
        /\ toks[j].date = date
        /\ toks[j].appointment_time # NoTime
        /\ toks[j].status \notin {"cancelled", "skipped"}}}

RECURSIVE MapStrfTime(_)
MapStrfTime(s) == IF Len(s) = 0 THEN <<>> ELSE <<StrfTime(s[1])>> \o MapStrfTime(Tail(s))

\* _get_available_slots_for_doctor for a date string that parses
AvailableSlots(toks, doctor_id, date) ==
    LET booked_slots == BookedSlots(toks, doctor_id, date)
    IN MapStrfTime(SelectSeq(AllSlots, LAMBDA slot : slot \notin booked_slots))

\* appointment_time_str in formatted_slots
InSlots(s, slots) == \E i \in 1..Len(slots) : slots[i] = s

\* TIME_ZONE = 'Asia/Kolkata' is UTC+05:30
UTC_OFFSET == 330

\* timezone.now().time(): with USE_TZ = True timezone.now() is an aware
\* datetime in UTC, and .time() is its UTC wall time
NowTime(clock) == (clock - UTC_OFFSET) % 1440

RECURSIVE FindNextFrom(_, _, _, _)
\* the for loop of _find_next_available_slot_for_doctor from day offset i:
\* <<date, "HH:MM">>, or <<>> for (None, None)
FindNextFrom(toks, doctor_id, i, clock) ==
    IF i >= 7 THEN <<>>
    ELSE LET current_date == Today + i
             available_slots == AvailableSlots(toks, doctor_id, current_date)
             current_time_slots ==
                 SelectSeq(available_slots, LAMBDA slot : StrpTime(slot) >= NowTime(clock))
         IN IF Len(available_slots) > 0 /\ current_date = Today /\ Len(current_time_slots) > 0
            THEN <<current_date, current_time_slots[1]>>
            ELSE IF Len(available_slots) > 0 /\ current_date # Today
            THEN <<current_date, available_slots[1]>>
            ELSE FindNextFrom(toks, doctor_id, i + 1, clock)

FindNextAvailableSlot(toks, doctor_id, clock) == FindNextFrom(toks, doctor_id, 0, clock)

(***************************************************************************)
(* Outcome of the deciding part of a handler: the response it is about to  *)
(* give and the database writes it is about to make.                       *)
(*   kind "create" : Token.objects.create(tok)                             *)
(*   kind "save"   : tok.save() of the instance read as row id (all fields)*)
(*   kind "update" : tok.save(update_fields=['status', 'completed_at'])    *)
(*   kind "task"   : async_task(...) puts a task on the queue              *)
(*   kind "consult": the Consultation row and its PrescriptionItem rows    *)
(* in program order; atomic: the writes are made in one transaction.       *)
(***************************************************************************)
NoTok == NewToken(0, 0, 0, NoTime, NoNumber, "")
NoTask == [func |-> "", phone |-> NoPhone, date |-> 0, time |-> NoTime]
NoConsult == [patient |-> 0, doctor |-> 0, items |-> <<>>]

TokenEffect(kind, id, tok) ==
    [kind |-> kind, id |-> id, tok |-> tok, task |-> NoTask, consult |-> NoConsult]
\* async_task(...)
TaskEffect(task) ==
    [kind |-> "task", id |-> 0, tok |-> NoTok, task |-> task, consult |-> NoConsult]
\* Consultation.objects.create(...) and its PrescriptionItem.objects.create(...)
ConsultEffect(c) ==
    [kind |-> "consult", id |-> 0, tok |-> NoTok, task |-> NoTask, consult |-> c]

Reply(code, say) == [code |-> code, say |-> say, writes |-> <<>>, atomic |-> FALSE]
Write(code, say, kind, id, tok) ==
    [code |-> code, say |-> say, writes |-> <<TokenEffect(kind, id, tok)>>, atomic |-> FALSE]

\* Patient.objects.filter(phone_number=...).first()
PatientByPhone(phone) == CHOOSE p \in Patients : PatientPhone(p) = phone

\* Token.objects.filter(patient=patient).exclude(status__in=[completed, cancelled, skipped])
ActiveIds(toks, patient) == {i \in Ids(toks) : toks[i].patient = patient /\ IsActive(toks[i])}
ActiveOn(toks, patient, date) == {i \in ActiveIds(toks, patient) : toks[i].date = date}

\* variant: the slot check is left out
PatientCreateNoSlotCheck(toks, clock, patient, doctor_id, date_str, time_str) ==
    IF time_str = NoStr THEN Reply(400, "required")
    ELSE IF ~DateStrValid(date_str) \/ ~TimeStrValid(time_str) THEN Reply(400, "invalid")
    ELSE IF StrpDate(date_str) < Today THEN Reply(400, "past")
    ELSE IF doctor_id \notin Doctors THEN Reply(400, "invalid")
    ELSE IF ActiveOn(toks, patient, StrpDate(date_str)) # {} THEN Reply(400, "active")
    ELSE Write(201, "", "create", 0,
               NewToken(patient, doctor_id, StrpDate(date_str), StrpTime(time_str),
                        NoNumber, "waiting"))

\* PatientCreateTokenView.post, up to Token.objects.create
PatientCreateDecide(toks, clock, patient, doctor_id, date_str, time_str) ==
    IF time_str = NoStr THEN Reply(400, "required")
    ELSE IF ~DateStrValid(date_str) \/ ~TimeStrValid(time_str) THEN Reply(400, "invalid")
    ELSE IF StrpDate(date_str) < Today THEN Reply(400, "past")
    ELSE IF doctor_id \notin Doctors THEN Reply(400, "invalid")
    ELSE IF ActiveOn(toks, patient, StrpDate(date_str)) # {} THEN Reply(400, "active")
    ELSE IF ~InSlots(time_str, AvailableSlots(toks, doctor_id, StrpDate(date_str)))
         THEN Reply(409, "slot")
    ELSE Write(201, "", "create", 0,
               NewToken(patient, doctor_id, StrpDate(date_str), StrpTime(time_str),
                        NoNumber, "waiting"))

\* TokenListCreate.post, up to Token.objects.create
ReceptionistCreateDecide(toks, clock, user, phone_number, doctor_id, time_str) ==
    IF phone_number = NoPhone THEN Reply(400, "required")
    ELSE IF user.role # "receptionist" THEN Reply(403, "")
    ELSE IF doctor_id \notin Doctors \/ DoctorClinic(doctor_id) # user.clinic THEN Reply(404, "")
    ELSE IF time_str # NoStr /\ ~TimeStrValid(time_str) THEN Reply(400, "invalid")
    ELSE IF time_str # NoStr /\ ~InSlots(time_str, AvailableSlots(toks, doctor_id, Today))
         THEN Reply(409, "slot")
    ELSE IF ActiveOn(toks, PatientByPhone(phone_number), Today) # {} THEN Reply(400, "active")
    ELSE LET appointment_time == IF time_str = NoStr THEN NoTime ELSE StrpTime(time_str)
         IN Write(201, "", "create", 0,
                  NewToken(PatientByPhone(phone_number), doctor_id, Today, appointment_time,
                           NoNumber,
                           IF appointment_time # NoTime THEN "waiting" ELSE "confirmed"))

\* f"{doctor_initial}-{slot_number}"
IvrTokenNumber(doctor, appointment_time) ==
    LET slot_number == ((appointment_time - START_HOUR * 60) \div SLOT_MINUTES) + 1
    IN <<DoctorInitial(doctor), 45>> \o IntToStr(slot_number)

\* create_and_speak_token, up to Token.objects.create
IvrCreateDecide(toks, clock, doctor, caller_phone_number) ==
    LET patient == PatientByPhone(caller_phone_number)
        found == FindNextAvailableSlot(toks, doctor, clock)
    IN IF ActiveIds(toks, patient) # {} THEN Reply(200, "active")
       ELSE IF found = <<>> THEN Reply(200, "no_slots")
       ELSE Write(200, "booked", "create", 0,
                  NewToken(patient, doctor, found[1], StrpTime(found[2]),
                           IvrTokenNumber(doctor, StrpTime(found[2])), "waiting"))

(***************************************************************************)
(* Status changes.                                                         *)
(***************************************************************************)
CONFIRM_BEFORE == 20
CONFIRM_AFTER == 15
RADIUS_M == 1000
GRACE_MINUTES == 15

\* round(distance, 2) of a distance in km, from metres to hundredths of a km
Round2(distance_m) == (distance_m + 5) \div 10

\* variant: the window without its end
InArrivalWindowOpenEnd(appointment_time, clock) == appointment_time - CONFIRM_BEFORE <= clock

\* start_window <= now <= end_window of ConfirmArrivalView.post
InArrivalWindow(appointment_time, clock) ==
    /\ appointment_time - CONFIRM_BEFORE <= clock
    /\ clock <= appointment_time + CONFIRM_AFTER

\* distance > 1.0 of ConfirmArrivalView.post (distance_m: the result of
\* haversine_distance, in metres)
TooFar(distance_m) == distance_m > RADIUS_M

\* ConfirmArrivalView.post, up to token.save()
ConfirmArrivalDecide(toks, clock, patient, has_location, distance_m) ==
    LET W == {i \in Ids(toks) : /\ toks[i].patient = patient
                                /\ toks[i].date = Today
                                /\ toks[i].status = "waiting"}
        i == CHOOSE j \in W : TRUE
        token == toks[i]
    IN IF ~has_location THEN Reply(400, "location")
       ELSE IF W = {} THEN Reply(404, "")
       ELSE IF Cardinality(W) > 1 THEN Reply(400, "multiple")
       ELSE IF token.appointment_time # NoTime
               /\ ~InArrivalWindow(token.appointment_time, clock)
            THEN Reply(400, "window")
       ELSE IF ~ClinicHasLocation(token.clinic) THEN Reply(500, "clinic")
       ELSE IF TooFar(distance_m)
            THEN Write(400, "far", "save", i,
                       [token EXCEPT !.distance_km = Round2(distance_m)])
       ELSE Write(200, "", "save", i,
                  [token EXCEPT !.distance_km = Round2(distance_m), !.status = "confirmed"])

\* variant: a cancel that also takes a token in consultation
PatientCancelAnyActive(toks, clock, patient) ==
    LET S == {i \in Ids(toks) : /\ toks[i].patient = patient
                                /\ toks[i].date = Today
                                /\ toks[i].status \in {"waiting", "confirmed", "in_consultancy"}}
    IN IF S = {} THEN Reply(404, "")
       ELSE Write(200, "", "save", Latest(S), [toks[Latest(S)] EXCEPT !.status = "cancelled"])

\* PatientCancelTokenView.post, up to token.save()
PatientCancelDecide(toks, clock, patient) ==
    LET S == {i \in Ids(toks) : /\ toks[i].patient = patient
                                /\ toks[i].date = Today
                                /\ toks[i].status \in {"waiting", "confirmed"}}
    IN IF S = {} THEN Reply(404, "")
       ELSE Write(200, "", "save", Latest(S), [toks[Latest(S)] EXCEPT !.status = "cancelled"])

\* a user with neither a doctor nor a receptionist profile
PatientUser == [role |-> "patient", doctor |-> 0, clinic |-> NoClinic]

\* the Case/When status_priority of TokenListCreate.get_queryset
StatusPriority(status) ==
    CASE status = "in_consultancy" -> 1
      [] status = "confirmed" -> 2
      [] status = "waiting" -> 3
      [] OTHER -> 4

\* order_by(status_priority, F('appointment_time').asc(nulls_last=True),
\* 'created_at'): row i comes before row j
ListedBefore(toks, i, j) ==
    LET pi == StatusPriority(toks[i].status)
        pj == StatusPriority(toks[j].status)
        ti == toks[i].appointment_time
        tj == toks[j].appointment_time
    IN \/ pi < pj
       \/ pi = pj /\ ti # NoTime /\ (tj = NoTime \/ ti < tj)
       \/ pi = pj /\ ti = tj /\ i < j

RECURSIVE OrderBy(_, _)
\* the ids of S in the order of ListedBefore
OrderBy(toks, S) ==
    IF S = {} THEN <<>>
    ELSE LET first == CHOOSE i \in S : \A j \in S \ {i} : ListedBefore(toks, i, j)
         IN <<first>> \o OrderBy(toks, S \ {first})

\* TokenListCreate.get_queryset: the staff queue that GET tokens/ lists
TokenListQueryset(toks, user) ==
    LET base_queryset == {i \in Ids(toks) : /\ toks[i].date = Today
                                            /\ toks[i].status \notin {"completed", "cancelled"}}
    IN IF user.role = "doctor"
       THEN OrderBy(toks, {i \in base_queryset : toks[i].doctor = user.doctor})
       ELSE IF user.role = "receptionist"
       THEN OrderBy(toks, {i \in base_queryset : toks[i].clinic = user.clinic})
       ELSE <<>>

\* variant: the queryset without the filter on the clinic
StaffQuerysetAnyClinic(toks, user) ==
    IF user.clinic = NoClinic THEN {}
    ELSE {i \in Ids(toks) : toks[i].date = Today}

\* TokenUpdateStatusView.get_queryset: the ids the staff user may address
StaffQueryset(toks, user) ==
    IF user.clinic = NoClinic THEN {}
    ELSE {i \in Ids(toks) : toks[i].clinic = user.clinic /\ toks[i].date = Today}

\* variant: patch without the check of a completed or cancelled instance
TokenUpdateStatusNoFinalCheck(toks, clock, user, id, new_status) ==
    IF id \notin StaffQueryset(toks, user) THEN Reply(404, "")
    ELSE IF new_status \notin STATUS_CHOICES THEN Reply(400, "invalid")
    ELSE Write(200, "", "update", id,
               [toks[id] EXCEPT !.status = new_status,
                                !.completed_at = IF new_status = "completed"
                                                 THEN clock ELSE NoStamp])

\* TokenUpdateStatusView.patch, up to instance.save(update_fields=...)
TokenUpdateStatusDecide(toks, clock, user, id, new_status) ==
    IF id \notin StaffQueryset(toks, user) THEN Reply(404, "")
    ELSE IF new_status \notin STATUS_CHOICES THEN Reply(400, "invalid")
    ELSE IF toks[id].status \in {"completed", "cancelled"} THEN Reply(400, "final")
    ELSE Write(200, "", "update", id,
               [toks[id] EXCEPT !.status = new_status,
                                !.completed_at = IF new_status = "completed"
                                                 THEN clock ELSE NoStamp])

\* variant: the cutoff without the grace period
MissedNoGrace(appointment_time, clock) == clock > appointment_time

\* now > cutoff_time of check_and_cancel_missed_slots
Missed(appointment_time, clock) == clock > appointment_time + GRACE_MINUTES

\* async_task('api.tasks.send_cancelled_notification_sms', phone, message)
CancelledNotification(phone) ==
    [func |-> "send_cancelled_notification_sms", phone |-> phone, date |-> Today, time |-> NoTime]

RECURSIVE MissedWrites(_, _, _)
\* the for loop of check_and_cancel_missed_slots over the rows read, from row i
MissedWrites(toks, clock, i) ==
    IF i > Len(toks) THEN <<>>
    ELSE IF /\ toks[i].date = Today
            /\ toks[i].appointment_time # NoTime
            /\ toks[i].status = "waiting"
            /\ Missed(toks[i].appointment_time, clock)
         THEN <<TokenEffect("save", i, [toks[i] EXCEPT !.status = "cancelled"])>>
              \o (IF PatientPhone(toks[i].patient) # NoPhone
                  THEN <<TaskEffect(CancelledNotification(PatientPhone(toks[i].patient)))>>
                  ELSE <<>>)
              \o MissedWrites(toks, clock, i + 1)
         ELSE MissedWrites(toks, clock, i + 1)

\* check_and_cancel_missed_slots
MissedSlotsDecide(toks, clock) ==
    [code |-> 0, say |-> "", writes |-> MissedWrites(toks, clock, 1), atomic |-> FALSE]

(***************************************************************************)
(* Consultations.                                                          *)
(***************************************************************************)
MORNING_DOSE_TIME == 8 * 60
AFTERNOON_DOSE_TIME == 13 * 60
EVENING_DOSE_TIME == 20 * 60

\* the name `message` is bound nowhere in ConsultationCreateView.post nor at
\* module level: evaluating it raises NameError
MessageIsBound == FALSE

\* async_task('api.tasks.send_prescription_reminder_sms', phone, message, schedule=...)
Reminder(phone, reminder_date, dose_time) ==
    [func |-> "send_prescription_reminder_sms", phone |-> phone,
     date |-> reminder_date, time |-> dose_time]

\* the three async_task calls of one day of one item
DayReminders(phone, item, reminder_date) ==
    (IF item.timing_morning
     THEN <<TaskEffect(Reminder(phone, reminder_date, MORNING_DOSE_TIME))>> ELSE <<>>)
    \o (IF item.timing_afternoon
        THEN <<TaskEffect(Reminder(phone, reminder_date, AFTERNOON_DOSE_TIME))>> ELSE <<>>)
    \o (IF item.timing_evening
        THEN <<TaskEffect(Reminder(phone, reminder_date, EVENING_DOSE_TIME))>> ELSE <<>>)

RECURSIVE ItemReminders(_, _, _)
\* for day in range(1, duration + 1), from day
ItemReminders(phone, item, day) ==
    IF day > item.duration_days THEN <<>>
    ELSE DayReminders(phone, item, Today + day) \o ItemReminders(phone, item, day + 1)

RECURSIVE AllReminders(_, _)
\* for item in new_prescription_items
AllReminders(phone, items) ==
    IF Len(items) = 0 THEN <<>>
    ELSE ItemReminders(phone, items[1], 1) \o AllReminders(phone, Tail(items))

\* ConsultationCreateView.post, up to the end of the transaction
ConsultationDecide(toks, clock, user, patient_id, has_notes, items) ==
    LET S == {i \in Ids(toks) : /\ toks[i].patient = patient_id
                                /\ toks[i].doctor = user.doctor
                                /\ toks[i].date = Today
                                /\ toks[i].status \in {"waiting", "confirmed", "in_consultancy"}}
        complete == IF S = {} THEN <<>>
                    ELSE <<TokenEffect("update", Latest(S),
                                       [toks[Latest(S)] EXCEPT !.status = "completed",
                                                               !.completed_at = clock])>>
        reminders == IF PatientPhone(patient_id) # NoPhone /\ Len(items) > 0
                     THEN AllReminders(PatientPhone(patient_id), items) ELSE <<>>
    IN IF patient_id = 0 \/ ~has_notes THEN Reply(400, "required")
       ELSE IF patient_id \notin Patients THEN Reply(404, "")
       ELSE IF user.role # "doctor" THEN Reply(403, "")
       ELSE IF Len(reminders) > 0 /\ ~MessageIsBound
            THEN Reply(500, "NameError")
       ELSE [code |-> 201, say |-> "",
             writes |-> <<ConsultEffect([patient |-> patient_id, doctor |-> user.doctor,
                                         items |-> items])>> \o complete \o reminders,
             atomic |-> TRUE]

(***************************************************************************)
(* Database writes.                                                        *)
(***************************************************************************)
\* one write on the database st = [toks, cons, tasks, failed, created];
\* failed: the INSERT raised IntegrityError
ApplyEffect(st, e, clock) ==
    CASE e.kind = "create" ->
            LET t == TokenSave(st.toks, e.tok, TRUE, clock)
            IN IF UniqueViolation(st.toks, t)
               THEN [st EXCEPT !.failed = TRUE]
               ELSE [st EXCEPT !.toks = Append(st.toks, t), !.created = Len(st.toks) + 1]
      [] e.kind = "save" ->
            [st EXCEPT !.toks[e.id] = TokenSave(st.toks, e.tok, FALSE, clock)]
      [] e.kind = "update" ->
            LET t == TokenSave(st.toks, e.tok, FALSE, clock)
            IN [st EXCEPT !.toks[e.id].status = t.status,
                          !.toks[e.id].completed_at = t.completed_at]
      [] e.kind = "task" -> [st EXCEPT !.tasks = Append(st.tasks, e.task)]
      [] e.kind = "consult" -> [st EXCEPT !.cons = Append(st.cons, e.consult)]

RECURSIVE ApplyAll(_, _, _)
\* the writes in program order, up to the first that raises
ApplyAll(st, writes, clock) ==
    IF Len(writes) = 0 \/ st.failed THEN st
    ELSE ApplyAll(ApplyEffect(st, writes[1], clock), Tail(writes), clock)

Database == [toks |-> tokens, cons |-> consultations, tasks |-> tasks,
             failed |-> FALSE, created |-> 0]

\* the token the response is about: the one created, else the first one written
AboutToken(out, st) ==
    LET W == {k \in 1..Len(out.writes) : out.writes[k].kind \in {"save", "update"}}
    IN IF st.created # 0 THEN st.created
       ELSE IF W = {} THEN 0
       ELSE out.writes[CHOOSE k \in W : \A j \in W : k <= j].id

\* the response of handler op: an IntegrityError of Token.objects.create ends
\* the API views with 500 and the IVR handlers (except Exception) with a
\* spoken error
Response(op, out, st) ==
    [op |-> op,
     code |-> IF st.failed /\ op # "ivr" THEN 500 ELSE out.code,
     say |-> IF op # "ivr" THEN "" ELSE IF st.failed THEN "error" ELSE out.say,
     id |-> IF st.failed THEN 0 ELSE AboutToken(out, st)]

(***************************************************************************)
(* The IVR phone tree.  A handler answers with TwiML; what matters of it   *)
(* is how it ends: a <Gather> (with the URL that receives the digits and   *)
(* the number of menu items it announces) followed by a <Redirect>, a      *)
(* <Redirect>, a <Hangup>, or a <Say> as the last verb.                    *)
(***************************************************************************)
\* State, District: one state with two districts; both clinics are in
\* district 1 and district 2 has no clinic.  Querysets without order_by are
\* taken in the order of the ids.
StatesAll == <<1>>
DistrictsOf(state) == IF state = 1 THEN <<1, 2>> ELSE <<>>
ClinicDistrict(clinic) == 1
ClinicsOf(district) == SelectSeq(<<1, 2>>, LAMBDA c : ClinicDistrict(c) = district)
\* Doctor.specialization: doctors 1 and 3 have specialization 1, doctor 2 has 2
DoctorSpecialization(d) == IF d = 2 THEN 2 ELSE 1
DoctorsOf(clinic) == SelectSeq(<<1, 2, 3>>, LAMBDA d : DoctorClinic(d) = clinic)
\* values_list('specialization', flat=True).distinct()
SpecializationsOf(clinic) ==
    SelectSeq(<<1, 2>>, LAMBDA sp : \E d \in Doctors :
                            DoctorClinic(d) = clinic /\ DoctorSpecialization(d) = sp)
DoctorsOfSpec(clinic, spec) ==
    SelectSeq(DoctorsOf(clinic), LAMBDA d : DoctorSpecialization(d) = spec)

\* request.POST.get('Digits') of a request that carries no digits
NoDigits == -1

\* queryset[int(choice) - 1]: 0 stands for the exceptions that the handlers
\* answer with "Invalid choice" (TypeError of int(None), IndexError, and the
\* ValueError that a queryset raises for a negative index)
QuerySetItem(seq, digits) ==
    IF digits # NoDigits /\ digits - 1 >= 0 /\ digits - 1 < Len(seq)
    THEN seq[digits] ELSE 0

\* list[int(choice) - 1] of a Python list: index -1 is the last element
ListItem(seq, digits) ==
    IF digits = NoDigits THEN 0
    ELSE IF digits - 1 >= 0 /\ digits - 1 < Len(seq) THEN seq[digits]
    ELSE IF digits - 1 < 0 /\ 1 - digits <= Len(seq) THEN seq[Len(seq) + digits]
    ELSE 0

Url(h, a, s) == [h |-> h, a |-> a, s |-> s]
NoUrl == Url("", 0, 0)

Gather(action, items, redirect) ==
    [ends |-> "gather", items |-> items, action |-> action, redirect |-> redirect]
Redirect(url) == [ends |-> "redirect", items |-> 0, action |-> NoUrl, redirect |-> url]
Hangup == [ends |-> "hangup", items |-> 0, action |-> NoUrl, redirect |-> NoUrl]
SayOnly == [ends |-> "say", items |-> 0, action |-> NoUrl, redirect |-> NoUrl]

\* a handler's answer: its TwiML, its database writes, and the TwiML of its
\* except Exception branch
IvrAnswer(twiml) == [twiml |-> twiml, out |-> Reply(200, twiml.ends), onerror |-> twiml]

IvrWelcome ==
    IF Len(StatesAll) = 0 THEN IvrAnswer(Hangup)
    ELSE IvrAnswer(Gather(Url("state", 0, 0), Len(StatesAll), Url("welcome", 0, 0)))

IvrHandleState(digits) ==
    LET state == QuerySetItem(StatesAll, digits)
    IN IF state = 0 THEN IvrAnswer(Redirect(Url("welcome", 0, 0)))
       ELSE IF Len(DistrictsOf(state)) = 0 THEN IvrAnswer(Redirect(Url("welcome", 0, 0)))
       ELSE IvrAnswer(Gather(Url("district", state, 0), Len(DistrictsOf(state)),
                             Url("state", 0, 0)))

IvrHandleDistrict(state_id, digits) ==
    LET district == QuerySetItem(DistrictsOf(state_id), digits)
    IN IF district = 0 THEN IvrAnswer(Redirect(Url("welcome", 0, 0)))
       ELSE IF Len(ClinicsOf(district)) = 0 THEN IvrAnswer(Redirect(Url("state", 0, 0)))
       ELSE IvrAnswer(Gather(Url("clinic", district, 0), Len(ClinicsOf(district)),
                             Url("district", state_id, 0)))

\* the menu of ivr_handle_clinic announces the digits 1 and 2
IvrHandleClinic(district_id, digits) ==
    LET clinic == QuerySetItem(ClinicsOf(district_id), digits)
    IN IF clinic = 0 THEN IvrAnswer(Redirect(Url("welcome", 0, 0)))
       ELSE IvrAnswer(Gather(Url("booking_type", clinic, 0), 2, Url("clinic", district_id, 0)))

RECURSIVE BestDoctorFrom(_, _, _, _)
\* the for loop over the doctors of ivr_handle_booking_type: the doctor whose
\* first available slot of today is the earliest, 0 for None
BestDoctorFrom(toks, doctors, best_doctor, earliest_slot_time) ==
    IF Len(doctors) = 0 THEN best_doctor
    ELSE LET available_slots == AvailableSlots(toks, doctors[1], Today)
         IN IF Len(available_slots) > 0
               /\ (best_doctor = 0 \/ StrpTime(available_slots[1]) < earliest_slot_time)
            THEN BestDoctorFrom(toks, Tail(doctors), doctors[1], StrpTime(available_slots[1]))
            ELSE BestDoctorFrom(toks, Tail(doctors), best_doctor, earliest_slot_time)

BestDoctor(toks, clinic) == BestDoctorFrom(toks, DoctorsOf(clinic), 0, NoTime)

\* create_and_speak_token as called by a handler whose except Exception
\* branch answers onerror
IvrCreate(toks, clock, doctor, caller_phone_number, onerror) ==
    LET out == IvrCreateDecide(toks, clock, doctor, caller_phone_number)
    IN [twiml |-> IF out.say = "booked" THEN SayOnly ELSE Hangup,
        out |-> out, onerror |-> onerror]

IvrHandleBookingType(toks, clock, clinic_id, digits, caller_phone_number) ==
    IF caller_phone_number = NoPhone THEN IvrAnswer(Hangup)
    ELSE IF digits = 1
    THEN IF Len(DoctorsOf(clinic_id)) = 0 THEN IvrAnswer(Hangup)
         ELSE IF BestDoctor(toks, clinic_id) = 0 THEN IvrAnswer(Hangup)
         ELSE IvrCreate(toks, clock, BestDoctor(toks, clinic_id), caller_phone_number, Hangup)
    ELSE IF digits = 2
    THEN IF Len(SpecializationsOf(clinic_id)) = 0
         THEN IvrAnswer(Redirect(Url("clinic", ClinicDistrict(clinic_id), 0)))
         ELSE IvrAnswer(Gather(Url("specialization", clinic_id, 0),
                               Len(SpecializationsOf(clinic_id)),
                               Url("booking_type", clinic_id, 0)))
    ELSE IvrAnswer(Redirect(Url("booking_type", clinic_id, 0)))

IvrHandleSpecialization(clinic_id, digits) ==
    LET spec == ListItem(SpecializationsOf(clinic_id), digits)
    IN IF spec = 0 THEN IvrAnswer(Redirect(Url("booking_type", clinic_id, 0)))
       ELSE IF Len(DoctorsOfSpec(clinic_id, spec)) = 0
       THEN IvrAnswer(Redirect(Url("booking_type", clinic_id, 0)))
       ELSE IvrAnswer(Gather(Url("doctor", clinic_id, spec),
                             Len(DoctorsOfSpec(clinic_id, spec)),
                             Url("specialization", clinic_id, 0)))

IvrHandleDoctor(toks, clock, clinic_id, spec, digits, caller_phone_number) ==
    LET doctor == QuerySetItem(DoctorsOfSpec(clinic_id, spec), digits)
    IN IF caller_phone_number = NoPhone THEN IvrAnswer(Hangup)
       ELSE IF doctor = 0 THEN IvrAnswer(Redirect(Url("specialization", clinic_id, 0)))
       ELSE IvrCreate(toks, clock, doctor, caller_phone_number,
                      Redirect(Url("specialization", clinic_id, 0)))

\* urlpatterns: the handler of a URL
IvrRequest(toks, clock, url, digits, caller_phone_number) ==
    CASE url.h = "welcome" -> IvrWelcome
      [] url.h = "state" -> IvrHandleState(digits)
      [] url.h = "district" -> IvrHandleDistrict(url.a, digits)
      [] url.h = "clinic" -> IvrHandleClinic(url.a, digits)
      [] url.h = "booking_type" ->
            IvrHandleBookingType(toks, clock, url.a, digits, caller_phone_number)
      [] url.h = "specialization" -> IvrHandleSpecialization(url.a, digits)
      [] url.h = "doctor" ->
            IvrHandleDoctor(toks, clock, url.a, url.s, digits, caller_phone_number)

\* no call in progress
NoCall == [live |-> FALSE, from |-> NoPhone, twiml |-> Hangup, announced |-> TRUE]

(***************************************************************************)
(* The state machine.  In Spec every handler runs from request to response *)
(* without interleaving.                                                   *)
(***************************************************************************)
Idle == [op |-> "idle", out |-> Reply(0, "")]
Procs == 1..MaxRequests

\* the instants of today the clock visits: 08:39, just before the arrival
\* window [08:40, 09:15] of the 09:00 slot; 09:15, its last minute and the
\* last minute of the grace period; 09:16, just after both
ClockValues == {519, 555, 556}

\* empty tables, no request in flight, the clock at one of clocks
InitAt(clocks) ==
    /\ tokens = <<>>
    /\ consultations = <<>>
    /\ tasks = <<>>
    /\ now \in clocks
    /\ resp = [op |-> "init", code |-> 0, say |-> "", id |-> 0]
    /\ inflight = [p \in Procs |-> Idle]
    /\ call = NoCall

Init == InitAt(ClockValues)

\* the writes and the response of a handler that runs in one step
HandleDb(op, out) ==
    LET st == ApplyAll(Database, out.writes, now)
        done == IF st.failed /\ out.atomic THEN Database ELSE st
    IN /\ tokens' = done.toks
       /\ consultations' = done.cons
       /\ tasks' = done.tasks
       /\ resp' = Response(op, out, st)
       /\ UNCHANGED <<now, inflight>>

\* a handler of the REST API or a job that runs to its response in one step
Handle(op, out) == HandleDb(op, out) /\ UNCHANGED call

PatientCreateToken(patient, doctor_id, date_str, time_str) ==
    Handle("patient_create",
           PatientCreateDecide(tokens, now, patient, doctor_id, date_str, time_str))

ReceptionistCreateToken(user, phone_number, doctor_id, time_str) ==
    Handle("receptionist_create",
           ReceptionistCreateDecide(tokens, now, user, phone_number, doctor_id, time_str))

CreateAndSpeakToken(doctor, caller_phone_number) ==
    Handle("ivr", IvrCreateDecide(tokens, now, doctor, caller_phone_number))

ConfirmArrival(patient, has_location, distance_m) ==
    Handle("confirm_arrival",
           ConfirmArrivalDecide(tokens, now, patient, has_location, distance_m))

PatientCancelToken(patient) ==
    Handle("patient_cancel", PatientCancelDecide(tokens, now, patient))

TokenUpdateStatus(user, id, new_status) ==
    Handle("update_status", TokenUpdateStatusDecide(tokens, now, user, id, new_status))

ConsultationCreate(user, patient_id, has_notes, items) ==
    Handle("consultation", ConsultationDecide(tokens, now, user, patient_id, has_notes, items))

CheckAndCancelMissedSlots ==
    Handle("missed_slots", MissedSlotsDecide(tokens, now))

\* time passes (within today)
Tick ==
    /\ \E c \in ClockValues : c > now /\ now' = c
    /\ UNCHANGED <<tokens, consultations, tasks, resp, inflight, call>>

\* One request of the telephony provider to an IVR handler.  announced
\* records whether every digit since the welcome menu was one of the digits
\* 1..items that the menu before it announced.
IvrServe(url, digits, caller_phone_number, announced) ==
    LET r == IvrRequest(tokens, now, url, digits, caller_phone_number)
        st == ApplyAll(Database, r.out.writes, now)
        twiml == IF st.failed THEN r.onerror ELSE r.twiml
    IN /\ HandleDb("ivr", r.out)
       /\ call' = [live |-> twiml.ends \in {"gather", "redirect"},
                   from |-> caller_phone_number,
                   twiml |-> twiml,
                   announced |-> announced]

\* a caller dials the clinic's number: the provider requests ivr/welcome/
IvrIncomingCall(caller_phone_number) ==
    /\ ~call.live
    /\ IvrServe(Url("welcome", 0, 0), NoDigits, caller_phone_number, TRUE)

\* the caller presses digits during a <Gather>: they go to its action URL
IvrDigits(digits) ==
    /\ call.live
    /\ call.twiml.ends = "gather"
    /\ IvrServe(call.twiml.action, digits, call.from,
                call.announced /\ digits \in 1..call.twiml.items)

\* a <Redirect>, or a <Gather> that times out and falls through to the
\* <Redirect> after it: the next request carries no digits
IvrFollowRedirect ==
    /\ call.live
    /\ IvrServe(call.twiml.redirect, NoDigits, call.from,
                call.twiml.redirect.h = "welcome" \/ call.announced)

\* the caller hangs up
IvrCallerHangsUp ==
    /\ call.live
    /\ call' = [call EXCEPT !.live = FALSE]
    /\ UNCHANGED <<tokens, consultations, tasks, now, resp, inflight>>

(***************************************************************************)
(* Request inputs.                                                         *)
(***************************************************************************)
BadDateStr == [fmt |-> "bad", day |-> 0]
Item(d, m, a, e) ==
    [duration_days |-> d, timing_morning |-> m, timing_afternoon |-> a, timing_evening |-> e]
\* results of haversine_distance, in metres: on the 1 km radius, just outside
DistanceInputs == {1000, 1001}
Receptionist(c) == [role |-> "receptionist", doctor |-> 0, clinic |-> c]
DoctorUser(d) == [role |-> "doctor", doctor |-> d, clinic |-> DoctorClinic(d)]

(***************************************************************************)
(* Spec: the queue of one doctor on one day.  Patients book the 09:00 slot *)
(* and the receptionist hands out walk-in tokens; the five operations that *)
(* change a status act on them while the clock passes the end of the       *)
(* arrival window of the slot.                                             *)
(***************************************************************************)
Booking ==
    /\ Len(tokens) < MaxTokens
    /\ \/ \E p \in Patients :
            PatientCreateToken(p, 1, StrfDate(Today), StrfTime(540))
       \/ ReceptionistCreateToken(Receptionist(1), PatientPhone(1), 1, NoStr)

StatusChange ==
    \/ \E p \in Patients, loc \in BOOLEAN, dist \in DistanceInputs : ConfirmArrival(p, loc, dist)
    \/ \E p \in Patients : PatientCancelToken(p)
    \/ \E id \in 1..MaxTokens, s \in STATUS_CHOICES \cup {"done"} :
            TokenUpdateStatus(Receptionist(1), id, s)
    \/ /\ Len(consultations) < MaxConsultations
       /\ ConsultationCreate(DoctorUser(1), 1, TRUE, <<>>)
    \/ CheckAndCancelMissedSlots

Next == Booking \/ StatusChange \/ Tick

\* the last minute of the arrival window of the 09:00 slot
InitWindow == Init /\ now = 555

Spec == InitWindow /\ [][Next]_vars

(***************************************************************************)
(* SpecSlots: bookings of two doctors on two dates at the first and the    *)
(* last slot of the day, and the staff updates that free or keep a slot.   *)
(***************************************************************************)
InitSlots == Init /\ now = 519

NextSlots ==
    \/ /\ Len(tokens) < MaxTokens
       /\ \/ \E d \in {1, 2}, ds \in {StrfDate(Today), StrfDate(Today + 1)},
               ts \in {StrfTime(540), StrfTime(1005)} :
               PatientCreateToken(1, d, ds, ts)
          \/ CreateAndSpeakToken(1, PatientPhone(1))
    \/ \E id \in 1..MaxTokens, s \in {"cancelled", "skipped", "completed", "waiting"} :
           TokenUpdateStatus(Receptionist(1), id, s)

SpecSlots == InitSlots /\ [][NextSlots]_vars

(***************************************************************************)
(* SpecBooking: the three booking paths with well-formed and ill-formed    *)
(* requests, and the staff updates and cancellations that end a token.     *)
(***************************************************************************)
\* today, tomorrow, yesterday, and a string that is no date
DateStrInputs == {StrfDate(Today), StrfDate(Today + 1), StrfDate(Today - 1), BadDateStr}
\* "09:00", "9:00", "09:10", "17:00", "25:00" and the absent field
TimeStrInputs == {StrfTime(540), [h |-> 9, m |-> 0, pad |-> FALSE], StrfTime(550),
                  StrfTime(1020), [h |-> 25, m |-> 0, pad |-> TRUE], NoStr}

NextBooking ==
    \/ /\ Len(tokens) < MaxTokens
       /\ \/ \E p \in Patients, d \in {1, 2}, ds \in DateStrInputs, ts \in TimeStrInputs :
               PatientCreateToken(p, d, ds, ts)
          \/ \E u \in {Receptionist(1), DoctorUser(1)}, ph \in {PatientPhone(1), NoPhone},
                d \in {1, 3}, ts \in TimeStrInputs :
               ReceptionistCreateToken(u, ph, d, ts)
          \/ \E d \in {1, 2} : CreateAndSpeakToken(d, PatientPhone(1))
    \/ \E id \in 1..MaxTokens, s \in {"completed", "skipped", "done"} :
           TokenUpdateStatus(Receptionist(1), id, s)
    \/ \E p \in Patients : PatientCancelToken(p)

SpecBooking == InitSlots /\ [][NextBooking]_vars

(***************************************************************************)
(* SpecArrival: patients with a slot or a walk-in token confirm their      *)
(* arrival at the clinic as the clock advances.                            *)
(***************************************************************************)
NextArrival ==
    \/ /\ Len(tokens) < MaxTokens
       /\ \/ \E p \in Patients, d \in {1, 3} :
               PatientCreateToken(p, d, StrfDate(Today), StrfTime(540))
          \/ ReceptionistCreateToken(Receptionist(1), PatientPhone(1), 1, NoStr)
    \/ \E p \in Patients, loc \in BOOLEAN, dist \in DistanceInputs : ConfirmArrival(p, loc, dist)
    \/ \E id \in 1..MaxTokens, s \in {"waiting", "skipped"} :
           TokenUpdateStatus(Receptionist(1), id, s)
    \/ Tick

SpecArrival == Init /\ [][NextArrival]_vars

(***************************************************************************)
(* SpecIvr: calls to the IVR walk the phone tree, from a caller with and   *)
(* without a caller id, while patient 2 books and cancels the 09:15 and    *)
(* the 14:45 slot in the app.  The clock is 08:39 or 14:45 (09:15 UTC).    *)
(***************************************************************************)
DigitInputs == {0, 1, 2, 3}
IvrClocks == {519, 885}

InitIvr == InitAt(IvrClocks)

NextIvr ==
    \/ /\ Len(tokens) < MaxTokens
       /\ \E d \in {1, 2}, ts \in {StrfTime(555), StrfTime(885)} :
              PatientCreateToken(2, d, StrfDate(Today), ts)
    \/ PatientCancelToken(2)
    \/ \E ph \in {PatientPhone(1), NoPhone} : IvrIncomingCall(ph)
    \/ \E digits \in DigitInputs : IvrDigits(digits)
    \/ IvrFollowRedirect
    \/ IvrCallerHangsUp

SpecIvr == InitIvr /\ [][NextIvr]_vars

(***************************************************************************)
(* SpecMissed: the missed-slot job runs before, at the end of and after    *)
(* the grace period of the 09:00 slot, over slot tokens of today and       *)
(* tomorrow, walk-in tokens, and tokens that are confirmed or in           *)
(* consultation.                                                           *)
(***************************************************************************)
NextMissed ==
    \/ /\ Len(tokens) < MaxTokens
       /\ \/ \E p \in Patients, ds \in {StrfDate(Today), StrfDate(Today + 1)},
                ts \in {StrfTime(540), StrfTime(555)} :
               PatientCreateToken(p, 1, ds, ts)
          \/ ReceptionistCreateToken(Receptionist(1), PatientPhone(1), 1, NoStr)
    \/ \E p \in Patients : ConfirmArrival(p, TRUE, 1000)
    \/ \E id \in 1..MaxTokens : TokenUpdateStatus(Receptionist(1), id, "in_consultancy")
    \/ CheckAndCancelMissedSlots
    \/ Tick

SpecMissed == Init /\ [][NextMissed]_vars

(***************************************************************************)
(* SpecStaff: doctors and receptionists of both clinics, and a user with   *)
(* neither profile, update the status of tokens of both clinics, of today  *)
(* and of tomorrow.                                                        *)
(***************************************************************************)
Users == StaffUsers \cup {PatientUser}

NextStaff ==
    \/ /\ Len(tokens) < MaxTokens
       /\ \E p \in Patients, d \in Doctors, ds \in {StrfDate(Today), StrfDate(Today + 1)} :
              PatientCreateToken(p, d, ds, StrfTime(540))
    \/ \E u \in Users, id \in 1..MaxTokens, s \in {"in_consultancy", "completed", "skipped"} :
           TokenUpdateStatus(u, id, s)

SpecStaff == InitSlots /\ [][NextStaff]_vars

(***************************************************************************)
(* SpecWalkIn: a receptionist hands out walk-in tokens of one clinic all   *)
(* day; the patient's token is completed or cancelled before the next.     *)
(***************************************************************************)
NextWalkIn ==
    \/ /\ Len(tokens) < MaxWalkIns
       /\ ReceptionistCreateToken(Receptionist(1), PatientPhone(1), 1, NoStr)
    \/ \E id \in 1..MaxWalkIns : TokenUpdateStatus(Receptionist(1), id, "completed")
    \/ PatientCancelToken(1)

SpecWalkIn == InitSlots /\ [][NextWalkIn]_vars

(***************************************************************************)
(* SpecConsult: doctors post consultations with prescription items for     *)
(* patients who may hold a token of today.                                 *)
(***************************************************************************)
ItemInputs == {Item(2, TRUE, FALSE, TRUE), Item(1, FALSE, TRUE, FALSE),
               Item(1, FALSE, FALSE, FALSE), Item(0, TRUE, TRUE, TRUE)}
ItemLists == UNION {[1..n -> ItemInputs] : n \in 0..MaxItems}

NextConsult ==
    \/ /\ Len(tokens) < MaxTokens
       /\ \E p \in Patients, d \in {1, 2} : PatientCreateToken(p, d, StrfDate(Today), StrfTime(540))
    \/ \E id \in 1..MaxTokens : TokenUpdateStatus(Receptionist(1), id, "in_consultancy")
    \/ /\ Len(consultations) < MaxConsultations
       /\ \E u \in {DoctorUser(1), DoctorUser(2), Receptionist(1)}, p \in Patients \cup {0, 9},
             n \in BOOLEAN, items \in ItemLists :
             ConsultationCreate(u, p, n, items)

SpecConsult == InitSlots /\ [][NextConsult]_vars

(***************************************************************************)
(* SpecConc: the handlers as the server runs them, several requests and    *)
(* the missed-slot job at a time.  A handler reads the database and        *)
(* decides (Begin), and makes each of its writes in a later step (Commit); *)
(* the writes of a transaction are made in one step.                       *)
(***************************************************************************)
Begin(p, op, out) ==
    /\ inflight[p] = Idle
    /\ IF Len(out.writes) = 0
       THEN /\ resp' = Response(op, out, Database)
            /\ UNCHANGED inflight
       ELSE /\ inflight' = [inflight EXCEPT ![p] = [op |-> op, out |-> out]]
            /\ UNCHANGED resp
    /\ UNCHANGED <<tokens, consultations, tasks, now, call>>

Commit(p) ==
    /\ inflight[p] # Idle
    /\ LET op == inflight[p].op
           out == inflight[p].out
           todo == IF out.atomic THEN out.writes ELSE <<out.writes[1]>>
           rest == IF out.atomic THEN <<>> ELSE Tail(out.writes)
           st == ApplyAll(Database, todo, now)
           done == IF st.failed /\ out.atomic THEN Database ELSE st
       IN /\ tokens' = done.toks
          /\ consultations' = done.cons
          /\ tasks' = done.tasks
          /\ IF st.failed \/ Len(rest) = 0
             THEN /\ resp' = Response(op, out, st)
                  /\ inflight' = [inflight EXCEPT ![p] = Idle]
             ELSE /\ inflight' = [inflight EXCEPT ![p].out.writes = rest]
                  /\ UNCHANGED resp
    /\ UNCHANGED <<now, call>>

BeginBooking(p) ==
    /\ Len(tokens) < MaxTokens
    /\ \/ \E pt \in Patients :
            Begin(p, "patient_create",
                  PatientCreateDecide(tokens, now, pt, 1, StrfDate(Today), StrfTime(540)))
       \/ Begin(p, "receptionist_create",
                ReceptionistCreateDecide(tokens, now, Receptionist(1), PatientPhone(1), 1,
                                         StrfTime(540)))
       \/ Begin(p, "ivr", IvrCreateDecide(tokens, now, 1, PatientPhone(1)))

BeginStatusChange(p) ==
    \/ \E pt \in Patients :
           Begin(p, "confirm_arrival", ConfirmArrivalDecide(tokens, now, pt, TRUE, 1000))
    \/ \E pt \in Patients :
           Begin(p, "patient_cancel", PatientCancelDecide(tokens, now, pt))
    \/ \E id \in 1..MaxTokens, s \in {"in_consultancy", "completed"} :
           Begin(p, "update_status",
                 TokenUpdateStatusDecide(tokens, now, Receptionist(1), id, s))
    \/ /\ Len(consultations) < MaxConsultations
       /\ Begin(p, "consultation",
                ConsultationDecide(tokens, now, DoctorUser(1), 1, TRUE, <<>>))
    \/ Begin(p, "missed_slots", MissedSlotsDecide(tokens, now))

\* SpecRace: concurrent booking requests of the three paths for one doctor,
\* date and slot, and patients who cancel
NextRace ==
    \E p \in Procs :
        \/ BeginBooking(p)
        \/ \E pt \in Patients :
               Begin(p, "patient_cancel", PatientCancelDecide(tokens, now, pt))
        \/ Commit(p)

SpecRace == InitSlots /\ [][NextRace]_vars

\* SpecConc: concurrent status changes of the tokens that patients book
NextConc ==
    \/ /\ Len(tokens) < MaxTokens
       /\ \E ts \in {StrfTime(540), StrfTime(555)} :
              PatientCreateToken(1, 1, StrfDate(Today), ts)
    \/ \E p \in Procs : BeginStatusChange(p) \/ Commit(p)

\* the clock is past the cutoff of the 09:00 slot and inside the window of 09:15
InitConc == Init /\ now = 556

SpecConc == InitConc /\ [][NextConc]_vars

(***************************************************************************)
(* Properties of the status workflow.                                      *)
(***************************************************************************)
\* the stage of a status in waiting -> confirmed -> in_consultancy ->
\* completed / cancelled / skipped
Stage(status) ==
    CASE status = "waiting" -> 0
      [] status = "confirmed" -> 1
      [] status = "in_consultancy" -> 2
      [] OTHER -> 3

MovedBack(i) == Stage(tokens'[i].status) < Stage(tokens[i].status)

Grid == {[h |-> 9 + (k \div 4), m |-> 15 * (k % 4), pad |-> TRUE] : k \in 0..31}

\* the "HH:MM" strings of the slots that a token of the doctor on the date holds
Held(doctor, date) ==
    {StrfTime(tokens[i].appointment_time) : i \in {j \in Ids(tokens) :
        /\ tokens[j].doctor = doctor
        /\ tokens[j].date = date
        /\ tokens[j].appointment_time # NoTime
        /\ tokens[j].status # "cancelled"
        /\ tokens[j].status # "skipped"}}

\* C4: for every doctor and date, _get_available_slots_for_doctor returns in
\* ascending time order, without repetition, exactly the 32 slots 09:00 ...
\* 16:45 minus the slots of the doctor's tokens of that date that are
\* neither cancelled nor skipped.
C4_AvailableSlotsExact ==
    /\ Cardinality(Grid) = 32
    /\ \A d \in Doctors, date \in {Today, Today + 1} :
          LET A == AvailableSlots(tokens, d, date)
          IN /\ \A k \in 1..(Len(A) - 1) : StrpTime(A[k]) < StrpTime(A[k + 1])
             /\ {A[k] : k \in 1..Len(A)} = Grid \ Held(d, date)

\* one token of doctor 1 today is cancelled or skipped and keeps its slot
\* free, another one holds a slot
C4_Witness ==
    \E i, j \in Ids(tokens) :
        /\ tokens[i].doctor = 1 /\ tokens[i].date = Today
        /\ tokens[i].appointment_time # NoTime
        /\ tokens[i].status \in {"cancelled", "skipped"}
        /\ tokens[j].doctor = 1 /\ tokens[j].date = Today
        /\ tokens[j].appointment_time # NoTime
        /\ tokens[j].status \in {"waiting", "confirmed"}
        /\ Len(AvailableSlots(tokens, 1, Today)) = 31

(***************************************************************************)
(* Properties of the stored tokens.                                        *)
(***************************************************************************)
\* C5 as stated: a patient has at most one active token (not completed,
\* cancelled or skipped) for any one date.
C5_OneActiveTokenPerDate ==
    \A p \in Patients, date \in {Today, Today + 1} :
        Cardinality({i \in Ids(tokens) : /\ tokens[i].patient = p
                                         /\ tokens[i].date = date
                                         /\ tokens[i].status \notin
                                                {"completed", "cancelled", "skipped"}}) <= 1

C7_ConfirmOnlyNearAndInWindow ==
    [][\A i \in Ids(tokens) :
          tokens'[i].status # tokens[i].status =>
              \A p \in Patients, loc \in BOOLEAN, dist \in DistanceInputs :
                  ConfirmArrival(p, loc, dist) =>
                      /\ tokens[i].patient = p
                      /\ tokens[i].date = Today
                      /\ tokens[i].status = "waiting"
                      /\ tokens'[i].status = "confirmed"
                      /\ loc
                      /\ dist <= 1000
                      /\ tokens[i].appointment_time # NoTime =>
                            /\ tokens[i].appointment_time - 20 <= now
                            /\ now <= tokens[i].appointment_time + 15]_vars

\* confirm-arrival has just confirmed a token with a time slot
C7_Witness ==
    /\ resp.op = "confirm_arrival" /\ resp.code = 200
    /\ resp.id \in Ids(tokens)
    /\ tokens[resp.id].status = "confirmed"
    /\ tokens[resp.id].appointment_time # NoTime
    /\ tokens[resp.id].distance_km # NoDistance

(***************************************************************************)
(* Properties of the walk-in numbering (SpecWalkIn).                       *)
(***************************************************************************)
IsWalkIn(i) == tokens[i].appointment_time = NoTime

\* the rank of walk-in token i among the walk-in tokens of its clinic and
\* date, in the order of creation
WalkInRank(i) ==
    Cardinality({j \in 1..i : /\ IsWalkIn(j)
                              /\ tokens[j].clinic = tokens[i].clinic
                              /\ tokens[j].date = tokens[i].date})

\* C2 as stated: the k-th walk-in token of a clinic on a date has token
\* number k, for every k, and the creation of a walk-in token never fails
\* (a patient who already holds an active token is refused with 400, which
\* is no failure).
C2_WalkInsNumberedInSequence ==
    /\ \A i \in Ids(tokens) : IsWalkIn(i) => tokens[i].token_number = IntToStr(WalkInRank(i))
    /\ resp.op = "receptionist_create" => resp.code \in {201, 400}

(***************************************************************************)
(* Properties of concurrent requests (SpecRace, SpecConc).                 *)
(***************************************************************************)
\* C3: whatever the interleaving of the booking requests, no two tokens have
\* the same doctor, date and appointment time.
C3_NoDoubleBooking ==
    \A i, j \in Ids(tokens) :
        (/\ i # j
         /\ tokens[i].appointment_time # NoTime
         /\ tokens[i].doctor = tokens[j].doctor
         /\ tokens[i].date = tokens[j].date) =>
            tokens[i].appointment_time # tokens[j].appointment_time

\* a booking passed the availability check of its view and its INSERT was
\* refused by the database: the only token is waiting, as created, so the
\* slot was never free again after it was taken
C3_Witness ==
    /\ Len(tokens) = 1
    /\ tokens[1].status = "waiting"
    /\ tokens[1].appointment_time # NoTime
    /\ resp.op \in {"patient_create", "receptionist_create", "ivr"}
    /\ resp.code = 500 \/ resp.say = "error"

\* C8 as stated: once a token is completed or cancelled its status never
\* changes again, whatever the interleaving.
C8_FinalStatusNeverChanges ==
    [][\A i \in Ids(tokens) :
          tokens[i].status \in {"completed", "cancelled"} =>
              tokens'[i].status = tokens[i].status]_vars

(***************************************************************************)
(* Properties of consultations (SpecConsult).                              *)
(***************************************************************************)
\* C9 as stated: a doctor who posts notes and a list of valid prescription
\* items for an existing patient gets 201, the consultation with its items
\* is stored, and the patient's latest active token of today with that
\* doctor is completed with completed_at set.
C9_ConsultationPersisted ==
    [][resp'.op = "consultation" =>
          \A u \in {DoctorUser(d) : d \in Doctors}, p \in Patients, items \in ItemLists :
              ConsultationCreate(u, p, TRUE, items) =>
                  LET S == {i \in Ids(tokens) :
                               /\ tokens[i].patient = p
                               /\ tokens[i].doctor = u.doctor
                               /\ tokens[i].date = Today
                               /\ tokens[i].status \in {"waiting", "confirmed", "in_consultancy"}}
                  IN /\ resp'.code = 201
                     /\ consultations' = Append(consultations,
                            [patient |-> p, doctor |-> u.doctor, items |-> items])
                     /\ \A i \in S : (\A j \in S : j <= i) =>
                            /\ tokens'[i].status = "completed"
                            /\ tokens'[i].completed_at # NoStamp]_vars

RECURSIVE ExpectedReminders(_)
\* the duration of each item times the number of its set timing flags
ExpectedReminders(items) ==
    IF Len(items) = 0 THEN 0
    ELSE (IF items[1].duration_days > 0
          THEN items[1].duration_days
               * ((IF items[1].timing_morning THEN 1 ELSE 0)
                  + (IF items[1].timing_afternoon THEN 1 ELSE 0)
                  + (IF items[1].timing_evening THEN 1 ELSE 0))
          ELSE 0)
         + ExpectedReminders(Tail(items))

\* C10 as stated: a consultation for a patient with a phone number puts on
\* the task queue, for each item, its duration times the number of its set
\* timing flags reminder tasks.
C10_RemindersScheduled ==
    [][resp'.op = "consultation" =>
          \A u \in {DoctorUser(d) : d \in Doctors}, p \in Patients, items \in ItemLists :
              (PatientPhone(p) # NoPhone /\ ConsultationCreate(u, p, TRUE, items)) =>
                  Len(tasks') = Len(tasks) + ExpectedReminders(items)]_vars

(***************************************************************************)
(* Properties of the IVR (SpecIvr).                                        *)
(***************************************************************************)
\* the response of the step ends in a gather followed by a redirect, a
\* redirect, or a hangup
EndsInGatherRedirectOrHangup == call'.twiml.ends \in {"gather", "redirect", "hangup"}

\* if the step is an IVR request that creates a token, every digit since the
\* welcome menu selected an announced menu item and the caller's number is
\* present
TokenOnAnnouncedPath ==
    (Len(tokens') > Len(tokens) /\ call' # call) =>
        (call'.announced /\ call'.from # NoPhone)

\* C11 as stated: every handler response ends in a gather followed by a
\* redirect, a redirect to a menu, or a hangup, and a token is created only
\* at the end of a path on which every digit selected an announced menu item
\* and the caller's phone number was present.
C11_PhoneTree == [][EndsInGatherRedirectOrHangup /\ TokenOnAnnouncedPath]_vars

\* the (date, time) pairs of the dates today ... today+6 whose slot is
\* available for the doctor and, on today, not before the current time
BookableSlots(toks, doctor_id, clock) ==
    {p \in (Today..(Today + 6)) \X {StrpTime(g) : g \in Grid} :
        /\ p[2] \notin BookedSlots(toks, doctor_id, p[1])
        /\ p[1] = Today => p[2] >= clock}

\* the earliest pair of a non-empty set of (date, time) pairs
EarliestSlot(S) ==
    CHOOSE p \in S : \A q \in S : p[1] < q[1] \/ (p[1] = q[1] /\ p[2] <= q[2])

\* C12 as stated: _find_next_available_slot_for_doctor returns the earliest
\* (date, slot) among today ... today+6 such that the slot is available for
\* the doctor and, when the date is today, the slot time is not before the
\* current time (now, the time of day at the clinic); it returns
\* (None, None) exactly when there is no such slot.
C12_FindsEarliestBookableSlot ==
    \A d \in Doctors :
        LET S == BookableSlots(tokens, d, now)
            found == FindNextAvailableSlot(tokens, d, now)
        IN IF S = {} THEN found = <<>>
           ELSE found = <<EarliestSlot(S)[1], StrfTime(EarliestSlot(S)[2])>>

C14_CancelsLatestOwnToken ==
    [][\A p \in Patients :
          PatientCancelToken(p) =>
              LET S == {i \in Ids(tokens) : /\ tokens[i].patient = p
                                            /\ tokens[i].date = Today
                                            /\ tokens[i].status \in {"waiting", "confirmed"}}
                  last == CHOOSE i \in S : \A j \in S : j <= i
              IN IF S = {}
                 THEN resp'.code = 404 /\ tokens' = tokens
                 ELSE /\ resp'.code = 200
                      /\ tokens' = [tokens EXCEPT ![last].status = "cancelled"]]_vars

\* the patient had two tokens to cancel: the later one is cancelled and the
\* earlier one is as it was
C14_Witness ==
    /\ resp.op = "patient_cancel" /\ resp.code = 200 /\ resp.id = 2
    /\ Len(tokens) = 2
    /\ tokens[2].status = "cancelled"
    /\ tokens[1].patient = tokens[2].patient
    /\ tokens[1].date = Today
    /\ tokens[1].status \in {"waiting", "confirmed"}

(***************************************************************************)
(* Properties of the staff endpoints (SpecStaff).                          *)
(***************************************************************************)
\* the ids that GET tokens/ lists for the user
Listed(user) ==
    {TokenListQueryset(tokens, user)[k] : k \in 1..Len(TokenListQueryset(tokens, user))}

\* the staff queue shows a doctor only that doctor's tokens, a receptionist
\* only tokens of the receptionist's clinic, any other user nothing
ListingKeptApart ==
    \A u \in Users :
        /\ u.role = "doctor" => \A i \in Listed(u) : tokens[i].doctor = u.doctor
        /\ u.role = "receptionist" => \A i \in Listed(u) : tokens[i].clinic = u.clinic
        /\ u.role \notin {"doctor", "receptionist"} => Listed(u) = {}

\* C15: a status update by a user changes the status of a token only if
\* the user is a doctor or receptionist, the token belongs to the clinic of
\* that user and is dated today; and after every step the staff queue shows
\* a doctor only that doctor's tokens, a receptionist only tokens of the
\* receptionist's clinic, and a user with neither profile no token.
C15_StaffKeptToOwnClinic ==
    [][/\ \A u \in Users, id \in 1..MaxTokens, s \in STATUS_CHOICES :
             TokenUpdateStatus(u, id, s) =>
                 \A i \in Ids(tokens) :
                     tokens'[i] # tokens[i] =>
                         /\ u.role \in {"doctor", "receptionist"}
                         /\ tokens[i].clinic = u.clinic
                         /\ tokens[i].date = Today
       /\ ListingKeptApart']_vars

\* a staff update has succeeded while tokens of both clinics are stored, one
\* of them in the queue of the doctor of clinic 2
C15_Witness ==
    /\ resp.op = "update_status" /\ resp.code = 200
    /\ \E i, j \in Ids(tokens) : tokens[i].clinic = 1 /\ tokens[j].clinic = 2
    /\ Listed(DoctorUser(3)) # {}

(***************************************************************************)
(* C16: every slot that the slot listing reports as available can be       *)
(* booked.  A patient with no active token on a date that is not in the    *)
(* past, asking for a slot that AvailableSlots lists for the doctor on     *)
(* that date, is answered 201 and the token is stored; this includes a     *)
(* slot whose earlier token was cancelled or skipped.                      *)
(***************************************************************************)
ReportedAvailable(patient, doctor_id, date_str, time_str) ==
    /\ time_str # NoStr
    /\ DateStrValid(date_str)
    /\ TimeStrValid(time_str)
    /\ StrpDate(date_str) >= Today
    /\ doctor_id \in Doctors
    /\ ActiveOn(tokens, patient, StrpDate(date_str)) = {}
    /\ InSlots(time_str, AvailableSlots(tokens, doctor_id, StrpDate(date_str)))

C16_AvailableSlotIsBookable ==
    [][\A p \in Patients, d \in Doctors, ds \in DateStrInputs, ts \in TimeStrInputs :
          (PatientCreateToken(p, d, ds, ts) /\ ReportedAvailable(p, d, ds, ts))
             => /\ resp'.code = 201
                /\ Len(tokens') = Len(tokens) + 1]_vars

(***************************************************************************)
(* C17: an IVR booking for a caller who has no active token, with a doctor *)
(* who has a bookable slot in the next seven days, stores a new waiting    *)
(* token of the caller with that doctor for the earliest such slot, with   *)
(* the number '<doctor initial>-<slot index>', whatever other tokens the   *)
(* clinic has on that date.                                                *)
(***************************************************************************)
IvrBooked(doctor, caller_phone_number) ==
    LET first == EarliestSlot(BookableSlots(tokens, doctor, now))
    IN /\ Len(tokens') = Len(tokens) + 1
       /\ SubSeq(tokens', 1, Len(tokens)) = tokens
       /\ LET t == tokens'[Len(tokens')]
          IN /\ t.patient = PatientByPhone(caller_phone_number)
             /\ t.doctor = doctor
             /\ t.date = first[1]
             /\ t.appointment_time = first[2]
             /\ t.status = "waiting"
             /\ t.token_number = IvrTokenNumber(doctor, first[2])

C17_IvrBooksFirstSlot ==
    [][\A d \in Doctors, ph \in {PatientPhone(p) : p \in Patients} :
          (/\ CreateAndSpeakToken(d, ph)
           /\ ActiveIds(tokens, PatientByPhone(ph)) = {}
           /\ BookableSlots(tokens, d, now) # {})
             => IvrBooked(d, ph)]_vars

(***************************************************************************)
(* C18: digit 1 at the booking-type menu ('next available doctor') books   *)
(* the doctor of the clinic whose earliest bookable slot is the earliest   *)
(* among all doctors of the clinic, and the caller is told that there is   *)
(* no slot only when no doctor of the clinic has a bookable slot.          *)
(***************************************************************************)
NotAfter(p, q) == p[1] < q[1] \/ (p[1] = q[1] /\ p[2] <= q[2])

NextAvailableChosen ==
    LET clinic_id == call.twiml.action.a
        doctors == {DoctorsOf(clinic_id)[i] : i \in 1..Len(DoctorsOf(clinic_id))}
        Slots(d) == BookableSlots(tokens, d, now)
    IN /\ Len(tokens') > Len(tokens) =>
            LET best == tokens'[Len(tokens')].doctor
            IN /\ best \in doctors
               /\ Slots(best) # {}
               /\ \A d \in doctors :
                     Slots(d) # {} => NotAfter(EarliestSlot(Slots(best)), EarliestSlot(Slots(d)))
       /\ resp'.say \in {"no_slots", "hangup"} => \A d \in doctors : Slots(d) = {}

C18_NextAvailableDoctor ==
    [][(/\ call.live
        /\ call.twiml.ends = "gather"
        /\ call.twiml.action.h = "booking_type"
        /\ call.from # NoPhone
        /\ IvrDigits(1)) => NextAvailableChosen]_vars

(***************************************************************************)
(* Properties of the appointment times (SpecBooking).                      *)
(***************************************************************************)
GridTimes == {StrpTime(g) : g \in Grid}

\* every token with an appointment time is on the 15-minute grid
GridKept == \A i \in Ids(tokens) :
    tokens[i].appointment_time # NoTime => tokens[i].appointment_time \in GridTimes

\* a requested time that is no grid time: off the grid, outside 09:00-17:00,
\* or no time of day at all
OffGrid(time_str) ==
    time_str # NoStr /\ ~(TimeStrValid(time_str) /\ StrpTime(time_str) \in GridTimes)

\* the request passes every check that PatientCreateTokenView.post makes
\* before its slot check
PatientSlotCheckReached(patient, doctor_id, date_str, time_str) ==
    /\ DateStrValid(date_str)
    /\ TimeStrValid(time_str)
    /\ StrpDate(date_str) >= Today
    /\ doctor_id \in Doctors
    /\ ActiveOn(tokens, patient, StrpDate(date_str)) = {}

\* the request passes every check that TokenListCreate.post makes before
\* its slot check
ReceptionistSlotCheckReached(user, phone_number, doctor_id, time_str) ==
    /\ phone_number # NoPhone
    /\ user.role = "receptionist"
    /\ doctor_id \in Doctors
    /\ DoctorClinic(doctor_id) = user.clinic
    /\ TimeStrValid(time_str)

====
